---- MODULE Spec2Model ----
(***************************************************************************)
(* pi-web session broker: the WebSocket connection handler, the registry   *)
(* of managed agent sessions and the agent process transport               *)
(* (src/server.ts lines 244-515, src/rpc.ts).                              *)
(*                                                                         *)
(* The handlers run on one event loop, so each handler is one atomic       *)
(* action.  A handler is written as an operator from a world record        *)
(*   [managed, rpc, rpcSessions, socketBindings, effects]                  *)
(* to the world after it, composed in the order of the statements of the   *)
(* source.  `effects` logs, in call order, the calls the last handler made *)
(* to the outside: spawn, stdin.write, ws.send, setTimeout, clearTimeout   *)
(* and kill.                                                               *)
(***************************************************************************)
EXTENDS Integers, Sequences, FiniteSets, TLC

\* ---------------------------------------------------------------- bounds
NumClients == 2
MaxSessions == 2
MaxChunkLines == 2
MaxStreamLen == 7
MaxChunkLen == 2
MaxErrLen == 4
MaxErrChunkLen == 4

\* --------------------------------------------------------------- inputs
Clients == 1..NumClients

NoSession == 0

\* A path is a sequence of segments; the empty path stands for a missing
\* (null, undefined or empty-string) value, which the source tests as falsy.
NoFile == << >>

\* process.env.HOME resolved (the default working directory)
HomeDir == <<"home">>

\* msg.cwd of a start_session request: "." is a segment that path.resolve
\* drops (the empty path would be a missing or blank value)
CwdInputs == {<<"p", ".">>}

\* msg.sessionFile of a start_session request
SessionFileInputs == {NoFile, <<"d", "a">>}

\* msg.cwd of start_session requests for directories whose names may hold
\* the text "::"
NamedCwdInputs == {<<"p">>, <<"p::a">>}

\* msg.sessionFile of start_session requests for files whose names may hold
\* the text "::", or are the text "__new__"
NamedFileInputs == {NoFile, <<"d", "b">>, <<"d", "a::b">>, <<"d", "__new__">>}

\* data.sessionFile of a get_state response: an absolute path, or missing
DiscoveredPaths == {NoFile, <<"s", "a">>}

\* data.sessionFile of successive get_state responses of one agent: the agent
\* names the file of its session, and names another file after it moved on
ReportedPaths == {<<"s", "a">>, <<"s", "b">>}

\* the model object of an event: "none" is a missing model or one without an
\* input array, "image" an input array that includes 'image', "text" one
\* that does not
Models == {"none", "image", "text"}

\* A JSON value read from the agent's stdout or sent as a command.
Json(type, command, success, sessionFile, model, images) ==
    [type |-> type, command |-> command, success |-> success,
     sessionFile |-> sessionFile, model |-> model, images |-> images]

NoJson == Json("", "", FALSE, NoFile, "none", 0)

\* lines of the agent's stdout: the agent's lifecycle and its get_state responses
LifecycleLines ==
    {Json("agent_start", "", FALSE, NoFile, "none", 0),
     Json("agent_end", "", FALSE, NoFile, "none", 0)}
    \cup {Json("response", "get_state", TRUE, p, "none", 0) : p \in DiscoveredPaths}

\* lines of the agent's stdout that describe the current model
ModelLines ==
    {Json("model_changed", "", FALSE, NoFile, mo, 0) : mo \in Models}
    \cup {Json("response", "get_state", TRUE, NoFile, "text", 0)}
    \cup {Json("response", "set_model", s, NoFile, "image", 0) : s \in BOOLEAN}

\* every event that updateSessionModelCapability looks at, with a model that
\* lists image input, one that lists text only, and no modality list
CapabilityLines ==
    {Json("model_changed", "", FALSE, NoFile, mo, 0) : mo \in Models}
    \cup {Json("response", "get_state", TRUE, NoFile, mo, 0) : mo \in Models}
    \cup {Json("response", "set_model", s, NoFile, mo, 0) : s \in BOOLEAN, mo \in Models}

\* lines of the agent's stdout as the stdout handler sees them in one chunk:
\* events, and a line that is not JSON
StreamLines ==
    {Json("agent_start", "", FALSE, NoFile, "none", 0),
     Json("agent_end", "", FALSE, NoFile, "none", 0),
     Json("message_update", "", FALSE, NoFile, "none", 0),
     NoJson}

\* the sequences of 1..n elements of S
RECURSIVE SeqsUpTo(_, _)
SeqsUpTo(S, n) ==
    IF n = 0 THEN {}
    ELSE {<<x>> : x \in S} \cup SeqsUpTo(S, n - 1)
         \cup {Append(q, x) : q \in SeqsUpTo(S, n - 1), x \in S}

StreamChunks == SeqsUpTo(StreamLines, MaxChunkLines)

\* the text of the agent's stdout, as a sequence of pieces: "{s" is the text
\* {"type":"agent_start" and "{e" the text {"type":"agent_end", both without
\* the closing brace; "}" closes an object, " " is a space and "\n" a newline
Pieces == {"{s", "{e", "}", " ", "\n"}

\* a chunk of stdout as the 'data' event delivers it: it may end anywhere
TextChunks == SeqsUpTo(Pieces, MaxChunkLen)

\* the text of the agent's stderr, as a sequence of pieces: "a" and "b" are
\* printable text, "\n" is a newline
ErrPieces == {"a", "b", "\n"}

\* a chunk of stderr as the 'data' event delivers it: it may end anywhere
ErrChunks == SeqsUpTo(ErrPieces, MaxErrChunkLen)

\* chunks of stderr that hold one line of text, and one that is white space
DiagnosticChunks == {<<"a", "\n">>, <<"\n">>}

\* msg.command of an rpc_command request
Commands ==
    {Json("prompt", "", FALSE, NoFile, "none", n) : n \in {0, 1}}
    \cup {Json("steer", "", FALSE, NoFile, "none", 1),
          Json("get_state", "", FALSE, NoFile, "none", 0),
          Json("upload", "", FALSE, NoFile, "none", 1)}

ExitCodes == {0, 1}

\* the exit code of a process that a signal terminated (null)
NullCode == -1

\* the argument of RpcSession.send: a command object, or NoJson for a
\* missing value (msg.command of a frame that has none is undefined)
SendInputs == {Json("get_state", "", FALSE, NoFile, "none", 0), NoJson}

\* the text of an inbound client frame that reaches no branch of the message
\* handler: text that is not JSON, JSON values that are not objects, and
\* objects without a recognised type
MalformedPayloads == {"{", "null", "7", "[]", "{}", "{\"type\":\"noop\"}"}

\* ------------------------------------------------------------ variables
VARIABLES
    managed,         \* ManagedRpcSession objects, by creation order
    rpc,             \* the RpcSession and process of each managed session
    rpcSessions,     \* Map<string, ManagedRpcSession>
    socketBindings,  \* Map<WebSocket, ManagedRpcSession>
    readyState,      \* ws.readyState of each client socket
    agentBusy,       \* per process: agent_start emitted, no agent_end since
    requestedKey,    \* per bound client: the key of its last start_session
    effects,         \* outside calls of the last handler, in call order
    broker,          \* the server process: "running", or "crashed"
    stdoutText,      \* per process: the text it has written to stdout in chunks
    delivered,       \* per process: the events passed to onEvent from that text
    stderrText,      \* per process: the text it has written to stderr in chunks
    reported         \* per process: the messages passed to onError from that text

vars == <<managed, rpc, rpcSessions, socketBindings, readyState, agentBusy,
          requestedKey, effects, broker, stdoutText, delivered, stderrText,
          reported>>

\* ------------------------------------------------------- path functions
\* path.basename: the last segment
basename(path) == IF path = NoFile THEN NoFile ELSE <<path[Len(path)]>>

\* path.resolve of an absolute path: "." segments dropped, ".." resolved
RECURSIVE resolveFrom(_, _)
resolveFrom(done, rest) ==
    IF rest = << >> THEN done
    ELSE IF Head(rest) = "." THEN resolveFrom(done, Tail(rest))
    ELSE IF Head(rest) = ".."
         THEN resolveFrom(IF done = << >> THEN done
                          ELSE SubSeq(done, 1, Len(done) - 1), Tail(rest))
    ELSE resolveFrom(Append(done, Head(rest)), Tail(rest))

resolve(path) == resolveFrom(<< >>, path)

\* the text of an absolute path
RECURSIVE pathText(_)
pathText(path) ==
    IF path = << >> THEN "" ELSE "/" \o Head(path) \o pathText(Tail(path))

\* sessions.ts getSessionFilePath: join(sessionDir, cwdToSessionDir(cwd), filename)
getSessionFilePath(cwd, filename) == <<"sessions", pathText(cwd)>> \o filename

buildSessionKey(cwd, sessionFile) ==
    pathText(cwd) \o "::"
        \o (IF sessionFile # NoFile THEN basename(sessionFile)[1] ELSE "__new__")

\* ------------------------------------------------------- outside calls
Payload(type, event, message, code) ==
    [type |-> type, event |-> event, message |-> message, code |-> code]

\* one call to the outside: fx is the call, id the session or client it is
\* made on, and the rest what is passed
Fx(fx, id, payload) ==
    [fx |-> fx, id |-> id, type |-> payload.type, json |-> payload.event,
     message |-> payload.message, code |-> payload.code]

NoPayload == Payload("", NoJson, "", -1)

Log(w, e) == [w EXCEPT !.effects = Append(@, e)]

\* Map.get
Get(map, k) == IF k \in DOMAIN map THEN map[k] ELSE NoSession

\* Map.set
Put(map, k, v) == [x \in DOMAIN map \cup {k} |-> IF x = k THEN v ELSE map[x]]

\* Map.delete
Delete(map, k) == [x \in DOMAIN map \ {k} |-> map[x]]

\* ------------------------------------------------------------ src/rpc.ts
\* JSON.stringify(command) + "\n": the line of a JSON value carries the value;
\* JSON.stringify of a missing value is undefined, and the line is the text
\* "undefined", which is not JSON
stdinLine(command) ==
    IF command = NoJson THEN Payload("line", NoJson, "undefined", -1)
    ELSE Payload("line", command, "", -1)

\* RpcSession.send
rpcSend(w, m, command) ==
    IF w.rpc[m].killed \/ w.rpc[m].proc # "running" THEN w
    ELSE Log(w, Fx("stdin.write", m, stdinLine(command)))

\* RpcSession.kill without the killed flag test
rpcKill_Repeats(w, m) ==
    Log([w EXCEPT !.rpc[m].killed = TRUE, !.rpc[m].sigkillTimer = TRUE],
        Fx("kill", m, NoPayload))

\* RpcSession.kill: the "kill" call is proc.kill("SIGTERM"); sigkillTimer is
\* the pending 2000 ms timeout that sends SIGKILL
rpcKill(w, m) ==
    IF w.rpc[m].killed THEN w
    ELSE Log([w EXCEPT !.rpc[m].killed = TRUE, !.rpc[m].sigkillTimer = TRUE],
             Fx("kill", m, NoPayload))

\* the callback given to setTimeout in RpcSession.kill: proc.kill("SIGKILL")
\* signals the process unless it has exited; forced records a delivered SIGKILL
sigkillCallback(w, m) ==
    LET fired == [w EXCEPT !.rpc[m].sigkillTimer = FALSE]
    IN IF fired.rpc[m].proc # "running" THEN fired
       ELSE Log([fired EXCEPT !.rpc[m].forced = TRUE], Fx("SIGKILL", m, NoPayload))

\* new RpcSession(opts) that writes nothing to the process it spawned
newRpcSession_NoSwitch(w, m, sessionPath) ==
    Log([w EXCEPT !.rpc = Append(@,
            [killed |-> FALSE,
             proc |-> IF w.spawnFails THEN "failed" ELSE "running",
             sigkillTimer |-> FALSE, forced |-> FALSE,
             buffer |-> << >>])],
        Fx("spawn", m, NoPayload))

\* new RpcSession(opts): spawn, then switch_session when a file was given.
\* A process that could not be started is "failed": spawn returns, and the
\* child emits 'error' on a later tick.
newRpcSession(w, m, sessionPath) ==
    LET spawned == Log([w EXCEPT !.rpc = Append(@,
                           [killed |-> FALSE,
                            proc |-> IF w.spawnFails THEN "failed" ELSE "running",
                            sigkillTimer |-> FALSE, forced |-> FALSE,
                            buffer |-> << >>])],
                       Fx("spawn", m, NoPayload))
    IN IF sessionPath # NoFile
       THEN rpcSend(spawned, m, Json("switch_session", "", FALSE, sessionPath, "none", 0))
       ELSE spawned

\* --------------------------------------------------------- src/server.ts
sendToSocket(w, ws, payload) ==
    IF readyState[ws] # "OPEN" THEN w
    ELSE Log(w, Fx("ws.send", ws, payload))

\* the clients of a set in iteration order
ClientSeq(S) == SelectSeq([i \in 1..NumClients |-> i], LAMBDA c : c \in S)

RECURSIVE broadcastTo(_, _, _)
broadcastTo(w, cs, payload) ==
    IF cs = << >> THEN w
    ELSE broadcastTo(sendToSocket(w, Head(cs), payload), Tail(cs), payload)

\* broadcast that sends to every client bound to any session
broadcast_ToAllBound(w, m, payload) ==
    broadcastTo(w, ClientSeq(DOMAIN w.socketBindings), payload)

broadcast(w, m, payload) == broadcastTo(w, ClientSeq(w.managed[m].clients), payload)

clearIdleCleanupTimer(w, m) ==
    IF ~w.managed[m].idleCleanupTimer THEN w
    ELSE Log([w EXCEPT !.managed[m].idleCleanupTimer = FALSE],
             Fx("clearTimeout", m, NoPayload))

\* unregisterManagedSession that deletes every key of the session from the
\* registry, whichever session the entry points at
unregisterManagedSession_DeletesAll(w, m) ==
    [w EXCEPT !.rpcSessions = [k \in DOMAIN @ \ w.managed[m].keys |-> @[k]],
              !.managed[m].keys = {}]

unregisterManagedSession(w, m) ==
    LET gone == {k \in w.managed[m].keys : Get(w.rpcSessions, k) = m}
    IN [w EXCEPT !.rpcSessions = [k \in DOMAIN @ \ gone |-> @[k]],
                 !.managed[m].keys = {}]

\* registerManagedSessionKey that replaces the keys of the session by the new one
registerManagedSessionKey_Replaces(w, m, key) ==
    [w EXCEPT !.managed[m].keys = {key},
              !.rpcSessions = Put(@, key, m)]

registerManagedSessionKey(w, m, key) ==
    [w EXCEPT !.managed[m].keys = @ \cup {key},
              !.rpcSessions = Put(@, key, m)]

closeManagedSession(w, m) ==
    IF w.managed[m].isClosing THEN w
    ELSE rpcKill(unregisterManagedSession(clearIdleCleanupTimer(
             [w EXCEPT !.managed[m].isClosing = TRUE], m), m), m)

\* cleanupIfIdle that arms no timer
cleanupIfIdle_NeverArms(w, m) ==
    IF w.managed[m].isClosing THEN w
    ELSE IF w.managed[m].clients # {} THEN clearIdleCleanupTimer(w, m)
    ELSE IF w.managed[m].isAgentRunning THEN clearIdleCleanupTimer(w, m)
    ELSE w

\* cleanupIfIdle that does not look at the running flag
cleanupIfIdle_IgnoresRunning(w, m) ==
    IF w.managed[m].isClosing THEN w
    ELSE IF w.managed[m].clients # {} THEN clearIdleCleanupTimer(w, m)
    ELSE IF w.managed[m].idleCleanupTimer THEN w
    ELSE Log([w EXCEPT !.managed[m].idleCleanupTimer = TRUE],
             Fx("setTimeout", m, NoPayload))

cleanupIfIdle(w, m) ==
    IF w.managed[m].isClosing THEN w
    ELSE IF w.managed[m].clients # {} THEN clearIdleCleanupTimer(w, m)
    ELSE IF w.managed[m].isAgentRunning THEN clearIdleCleanupTimer(w, m)
    ELSE IF w.managed[m].idleCleanupTimer THEN w
    ELSE Log([w EXCEPT !.managed[m].idleCleanupTimer = TRUE],
             Fx("setTimeout", m, NoPayload))

\* the callback given to setTimeout in cleanupIfIdle
idleCleanupCallback(w, m) ==
    LET fired == [w EXCEPT !.managed[m].idleCleanupTimer = FALSE]
    IN IF fired.managed[m].isClosing THEN fired
       ELSE IF fired.managed[m].clients # {} THEN fired
       ELSE IF fired.managed[m].isAgentRunning THEN fired
       ELSE closeManagedSession(fired, m)

\* detachSocket that closes the session at once, whoever else is attached
detachSocket_ClosesSession(w, ws) ==
    LET current == Get(w.socketBindings, ws)
    IN IF current = NoSession THEN w
       ELSE closeManagedSession([w EXCEPT !.managed[current].clients = @ \ {ws},
                                          !.socketBindings = Delete(@, ws)], current)

\* detachSocket that does not re-evaluate idle reclaim
detachSocket_NoCleanup(w, ws) ==
    LET current == Get(w.socketBindings, ws)
    IN IF current = NoSession THEN w
       ELSE [w EXCEPT !.managed[current].clients = @ \ {ws},
                      !.socketBindings = Delete(@, ws)]

\* detachSocket that removes the binding but leaves the client in the session
detachSocket_LeavesClient(w, ws) ==
    LET current == Get(w.socketBindings, ws)
    IN IF current = NoSession THEN w
       ELSE cleanupIfIdle([w EXCEPT !.socketBindings = Delete(@, ws)], current)

detachSocket(w, ws) ==
    LET current == Get(w.socketBindings, ws)
    IN IF current = NoSession THEN w
       ELSE cleanupIfIdle([w EXCEPT !.managed[current].clients = @ \ {ws},
                                    !.socketBindings = Delete(@, ws)], current)

registerDiscoveredSessionKey(w, m, event) ==
    IF event.type # "response" \/ event.command # "get_state" THEN w
    ELSE IF event.sessionFile = NoFile THEN w
    ELSE registerManagedSessionKey(w, m,
             buildSessionKey(w.managed[m].cwd, basename(event.sessionFile)))

deriveModelSupportsImages(model) ==
    CASE model = "image" -> "true"
      [] model = "text" -> "false"
      [] OTHER -> "null"

\* updateSessionModelCapability that stores whatever the event yields
updateSessionModelCapability_Resets(w, m, event) ==
    LET supports == deriveModelSupportsImages(event.model)
        set == [w EXCEPT !.managed[m].currentModelSupportsImages = supports]
    IN IF event.type = "model_changed" THEN set
       ELSE IF event.type = "response" /\ event.command = "get_state" THEN set
       ELSE IF event.type = "response" /\ event.command = "set_model" /\ event.success
            THEN set
       ELSE w

updateSessionModelCapability(w, m, event) ==
    LET supports == deriveModelSupportsImages(event.model)
        set == IF supports # "null"
               THEN [w EXCEPT !.managed[m].currentModelSupportsImages = supports]
               ELSE w
    IN IF event.type = "model_changed" THEN set
       ELSE IF event.type = "response" /\ event.command = "get_state" THEN set
       ELSE IF event.type = "response" /\ event.command = "set_model" /\ event.success
            THEN set
       ELSE w

\* onEvent that does not look at agent_start
onEvent_IgnoreStart(w, m, event) ==
    LET ended == IF event.type = "agent_end"
                 THEN cleanupIfIdle(
                          [w EXCEPT !.managed[m].isAgentRunning = FALSE], m)
                 ELSE w
    IN broadcast(registerDiscoveredSessionKey(
                     updateSessionModelCapability(ended, m, event), m, event),
                 m, Payload("rpc_event", event, "", -1))

\* opts.onEvent of createManagedSession
onEvent(w, m, event) ==
    LET started == IF event.type = "agent_start"
                   THEN clearIdleCleanupTimer(
                            [w EXCEPT !.managed[m].isAgentRunning = TRUE], m)
                   ELSE w
        ended == IF event.type = "agent_end"
                 THEN cleanupIfIdle(
                          [started EXCEPT !.managed[m].isAgentRunning = FALSE], m)
                 ELSE started
    IN broadcast(registerDiscoveredSessionKey(
                     updateSessionModelCapability(ended, m, event), m, event),
                 m, Payload("rpc_event", event, "", -1))

\* onError that closes the session after reporting
onError_Closes(w, m, error) ==
    closeManagedSession(broadcast(w, m, Payload("error", NoJson, error, -1)), m)

\* opts.onError of createManagedSession
onError(w, m, error) == broadcast(w, m, Payload("error", NoJson, error, -1))

\* onExit that leaves the bindings of the clients in place
onExit_KeepsBindings(w, m, code) ==
    LET marked == [w EXCEPT !.managed[m].isAgentRunning = FALSE,
                            !.managed[m].isClosing = TRUE]
        told == broadcast(unregisterManagedSession(clearIdleCleanupTimer(marked, m), m),
                          m, Payload("session_ended", NoJson, "", code))
    IN [told EXCEPT !.managed[m].clients = {}]

\* onExit that leaves the running flag as it was
onExit_KeepsRunning(w, m, code) ==
    LET marked == [w EXCEPT !.managed[m].isClosing = TRUE]
        told == broadcast(unregisterManagedSession(clearIdleCleanupTimer(marked, m), m),
                          m, Payload("session_ended", NoJson, "", code))
        bound == {c \in told.managed[m].clients : Get(told.socketBindings, c) = m}
    IN [told EXCEPT !.socketBindings = [c \in DOMAIN @ \ bound |-> @[c]],
                    !.managed[m].clients = {}]

\* opts.onExit of createManagedSession
onExit(w, m, code) ==
    LET marked == [w EXCEPT !.managed[m].isAgentRunning = FALSE,
                            !.managed[m].isClosing = TRUE]
        told == broadcast(unregisterManagedSession(clearIdleCleanupTimer(marked, m), m),
                          m, Payload("session_ended", NoJson, "", code))
        bound == {c \in told.managed[m].clients : Get(told.socketBindings, c) = m}
    IN [told EXCEPT !.socketBindings = [c \in DOMAIN @ \ bound |-> @[c]],
                    !.managed[m].clients = {}]

createManagedSession(w, cwd, sessionFile) ==
    LET m == Len(w.managed) + 1
        sessionPath == IF sessionFile # NoFile
                       THEN getSessionFilePath(cwd, sessionFile) ELSE NoFile
        made == [newRpcSession(w, m, sessionPath) EXCEPT !.managed = Append(@,
                    [cwd |-> cwd,
                     sessionFile |-> sessionFile,
                     clients |-> {},
                     isAgentRunning |-> FALSE,
                     currentModelSupportsImages |-> "null",
                     keys |-> {},
                     idleCleanupTimer |-> FALSE,
                     isClosing |-> FALSE])]
    IN registerManagedSessionKey(made, m, buildSessionKey(cwd, sessionFile))

\* a stdout handler that takes the lines of a chunk last to first
RECURSIVE stdoutData_LastFirst(_, _, _)
stdoutData_LastFirst(w, m, chunk) ==
    IF chunk = << >> THEN w
    ELSE LET rest == stdoutData_LastFirst(w, m, Tail(chunk))
         IN IF Head(chunk) = NoJson THEN rest ELSE onEvent(rest, m, Head(chunk))

\* rpc.ts stdout handler, for a chunk of complete lines: each line in turn
\* goes through JSON.parse and then to onEvent; a line that does not parse
\* (NoJson) is dropped
RECURSIVE stdoutData(_, _, _)
stdoutData(w, m, chunk) ==
    IF chunk = << >> THEN w
    ELSE stdoutData(IF Head(chunk) = NoJson THEN w ELSE onEvent(w, m, Head(chunk)),
                    m, Tail(chunk))

\* String.prototype.indexOf, counting from 1; 0 when the piece is not there
indexOf(text, piece) ==
    IF \E i \in 1..Len(text) : text[i] = piece
    THEN CHOOSE i \in 1..Len(text) :
             text[i] = piece /\ \A j \in 1..(i - 1) : text[j] # piece
    ELSE 0

\* the pieces that String.prototype.trim removes
WhiteSpace == {" ", "\n"}

\* String.prototype.trim: leading and trailing white space removed
RECURSIVE trim(_)
trim(text) ==
    IF text = << >> THEN text
    ELSE IF Head(text) \in WhiteSpace THEN trim(Tail(text))
    ELSE IF text[Len(text)] \in WhiteSpace THEN trim(SubSeq(text, 1, Len(text) - 1))
    ELSE text

\* the string that a sequence of pieces spells
RECURSIVE textOf(_)
textOf(text) == IF text = << >> THEN "" ELSE Head(text) \o textOf(Tail(text))

\* JSON.parse(line): white space between tokens is skipped; ok is FALSE when
\* it throws
JSONparseLine(line) ==
    LET tokens == SelectSeq(line, LAMBDA piece : piece # " ")
    IN IF tokens = <<"{s", "}">>
       THEN [ok |-> TRUE, value |-> Json("agent_start", "", FALSE, NoFile, "none", 0)]
       ELSE IF tokens = <<"{e", "}">>
       THEN [ok |-> TRUE, value |-> Json("agent_end", "", FALSE, NoFile, "none", 0)]
       ELSE [ok |-> FALSE, value |-> NoJson]

\* the body of the while loop of the stdout handler, for the line that ends
\* at idx: the line is cut from the buffer, trimmed and, when it is not empty
\* and parses, passed to onEvent
takeLine(w, m, idx) ==
    LET buffer == w.rpc[m].buffer
        line == trim(SubSeq(buffer, 1, idx - 1))
        cut == [w EXCEPT !.rpc[m].buffer = SubSeq(buffer, idx + 1, Len(buffer))]
        parsed == JSONparseLine(line)
    IN IF Len(line) > 0 /\ parsed.ok
       THEN onEvent([cut EXCEPT !.events = Append(@, parsed.value)], m, parsed.value)
       ELSE cut

\* the while loop of the stdout handler
RECURSIVE drainBuffer(_, _)
drainBuffer(w, m) ==
    LET idx == indexOf(w.rpc[m].buffer, "\n")
    IN IF idx = 0 THEN w ELSE drainBuffer(takeLine(w, m, idx), m)

\* a stdout handler that takes one line of the buffer per chunk
stdoutChunk_OneLinePerChunk(w, m, chunk) ==
    LET appended == [w EXCEPT !.rpc[m].buffer = @ \o chunk]
        idx == indexOf(appended.rpc[m].buffer, "\n")
    IN IF idx = 0 THEN appended ELSE takeLine(appended, m, idx)

\* rpc.ts stdout handler, for a chunk of text
stdoutChunk(w, m, chunk) ==
    drainBuffer([w EXCEPT !.rpc[m].buffer = @ \o chunk], m)

\* rpc.ts stderr handler: a chunk that is non-empty after trim goes to onError
stderrChunk(w, m, chunk) ==
    LET msg == trim(chunk)
    IN IF msg = << >> THEN w
       ELSE onError([w EXCEPT !.errors = Append(@, textOf(msg))], m, textOf(msg))

\* the key a start_session message asks for
requestKey(msgCwd, msgSessionFile) ==
    buildSessionKey(IF msgCwd # NoFile THEN resolve(msgCwd) ELSE resolve(HomeDir),
                    IF msgSessionFile # NoFile THEN basename(msgSessionFile) ELSE NoFile)

\* start_session without the registry lookup: every attach constructs a session
startSession_AlwaysCreate(w, ws, msgCwd, msgSessionFile) ==
    LET cwd == IF msgCwd # NoFile THEN resolve(msgCwd) ELSE resolve(HomeDir)
        sessionFile == IF msgSessionFile # NoFile THEN basename(msgSessionFile) ELSE NoFile
        key == buildSessionKey(cwd, sessionFile)
        currentlyBound == Get(w.socketBindings, ws)
        resolved == createManagedSession(detachSocket(w, ws), cwd, sessionFile)
        m == Len(resolved.managed)
    IN IF currentlyBound # NoSession /\ key \in w.managed[currentlyBound].keys
       THEN clearIdleCleanupTimer(w, currentlyBound)
       ELSE [clearIdleCleanupTimer(
                 [resolved EXCEPT !.managed[m].clients = @ \cup {ws}], m)
             EXCEPT !.socketBindings = Put(@, ws, m)]

\* start_session that does not cancel the idle timer of the session it joins
startSession_NoTimerCancel(w, ws, msgCwd, msgSessionFile) ==
    LET cwd == IF msgCwd # NoFile THEN resolve(msgCwd) ELSE resolve(HomeDir)
        sessionFile == IF msgSessionFile # NoFile THEN basename(msgSessionFile) ELSE NoFile
        key == buildSessionKey(cwd, sessionFile)
        currentlyBound == Get(w.socketBindings, ws)
        detached == detachSocket(w, ws)
        found == Get(detached.rpcSessions, key)
        create == found = NoSession \/ detached.managed[found].isClosing
        resolved == IF create THEN createManagedSession(detached, cwd, sessionFile)
                    ELSE detached
        m == IF create THEN Len(resolved.managed) ELSE found
    IN IF currentlyBound # NoSession /\ key \in w.managed[currentlyBound].keys
       THEN clearIdleCleanupTimer(w, currentlyBound)
       ELSE [resolved EXCEPT !.managed[m].clients = @ \cup {ws},
                             !.socketBindings = Put(@, ws, m)]

\* start_session that joins whatever session the registry holds for the key
startSession_JoinsClosing(w, ws, msgCwd, msgSessionFile) ==
    LET cwd == IF msgCwd # NoFile THEN resolve(msgCwd) ELSE resolve(HomeDir)
        sessionFile == IF msgSessionFile # NoFile THEN basename(msgSessionFile) ELSE NoFile
        key == buildSessionKey(cwd, sessionFile)
        currentlyBound == Get(w.socketBindings, ws)
        detached == detachSocket(w, ws)
        found == Get(detached.rpcSessions, key)
        create == found = NoSession
        resolved == IF create THEN createManagedSession(detached, cwd, sessionFile)
                    ELSE detached
        m == IF create THEN Len(resolved.managed) ELSE found
    IN IF currentlyBound # NoSession /\ key \in w.managed[currentlyBound].keys
       THEN clearIdleCleanupTimer(w, currentlyBound)
       ELSE [clearIdleCleanupTimer(
                 [resolved EXCEPT !.managed[m].clients = @ \cup {ws}], m)
             EXCEPT !.socketBindings = Put(@, ws, m)]

\* start_session without the branch for a client that already holds the key
startSession_AlwaysRebinds(w, ws, msgCwd, msgSessionFile) ==
    LET cwd == IF msgCwd # NoFile THEN resolve(msgCwd) ELSE resolve(HomeDir)
        sessionFile == IF msgSessionFile # NoFile THEN basename(msgSessionFile) ELSE NoFile
        key == buildSessionKey(cwd, sessionFile)
        detached == detachSocket(w, ws)
        found == Get(detached.rpcSessions, key)
        create == found = NoSession \/ detached.managed[found].isClosing
        resolved == IF create THEN createManagedSession(detached, cwd, sessionFile)
                    ELSE detached
        m == IF create THEN Len(resolved.managed) ELSE found
    IN [clearIdleCleanupTimer(
            [resolved EXCEPT !.managed[m].clients = @ \cup {ws}], m)
        EXCEPT !.socketBindings = Put(@, ws, m)]

\* start_session that does not detach the client from its current session
startSession_NoDetach(w, ws, msgCwd, msgSessionFile) ==
    LET cwd == IF msgCwd # NoFile THEN resolve(msgCwd) ELSE resolve(HomeDir)
        sessionFile == IF msgSessionFile # NoFile THEN basename(msgSessionFile) ELSE NoFile
        key == buildSessionKey(cwd, sessionFile)
        currentlyBound == Get(w.socketBindings, ws)
        found == Get(w.rpcSessions, key)
        create == found = NoSession \/ w.managed[found].isClosing
        resolved == IF create THEN createManagedSession(w, cwd, sessionFile) ELSE w
        m == IF create THEN Len(resolved.managed) ELSE found
    IN IF currentlyBound # NoSession /\ key \in w.managed[currentlyBound].keys
       THEN clearIdleCleanupTimer(w, currentlyBound)
       ELSE [clearIdleCleanupTimer(
                 [resolved EXCEPT !.managed[m].clients = @ \cup {ws}], m)
             EXCEPT !.socketBindings = Put(@, ws, m)]

\* ws.on('message'), msg.type === 'start_session'
startSession(w, ws, msgCwd, msgSessionFile) ==
    LET cwd == IF msgCwd # NoFile THEN resolve(msgCwd) ELSE resolve(HomeDir)
        sessionFile == IF msgSessionFile # NoFile THEN basename(msgSessionFile) ELSE NoFile
        key == buildSessionKey(cwd, sessionFile)
        currentlyBound == Get(w.socketBindings, ws)
        detached == detachSocket(w, ws)
        found == Get(detached.rpcSessions, key)
        create == found = NoSession \/ detached.managed[found].isClosing
        resolved == IF create THEN createManagedSession(detached, cwd, sessionFile)
                    ELSE detached
        m == IF create THEN Len(resolved.managed) ELSE found
    IN IF currentlyBound # NoSession /\ key \in w.managed[currentlyBound].keys
       THEN clearIdleCleanupTimer(w, currentlyBound)
       ELSE [clearIdleCleanupTimer(
                 [resolved EXCEPT !.managed[m].clients = @ \cup {ws}], m)
             EXCEPT !.socketBindings = Put(@, ws, m)]

\* the command types that isPromptLikeCommand accepts
PromptLike == {"prompt", "steer", "follow_up"}

\* rpc_command without the image admission check
rpcCommand_NoAdmission(w, ws, command) ==
    LET m == Get(w.socketBindings, ws)
    IN IF m = NoSession
       THEN sendToSocket(w, ws, Payload("error", NoJson, "no active session", -1))
       ELSE rpcSend(w, m, command)

\* rpc_command that says nothing to a client without a session
rpcCommand_DropsUnbound(w, ws, command) ==
    LET m == Get(w.socketBindings, ws)
        isPromptLikeCommand == command.type \in PromptLike
        hasImages == command.images > 0
    IN IF m = NoSession THEN w
       ELSE IF isPromptLikeCommand /\ hasImages
               /\ w.managed[m].currentModelSupportsImages = "false"
       THEN sendToSocket(w, ws, Payload("error", NoJson,
                "selected model does not support file attachments", -1))
       ELSE rpcSend(w, m, command)

\* ws.on('message'), msg.type === 'rpc_command'
rpcCommand(w, ws, command) ==
    LET m == Get(w.socketBindings, ws)
        isPromptLikeCommand == command.type \in PromptLike
        hasImages == command.images > 0
    IN IF m = NoSession
       THEN sendToSocket(w, ws, Payload("error", NoJson, "no active session", -1))
       ELSE IF isPromptLikeCommand /\ hasImages
               /\ w.managed[m].currentModelSupportsImages = "false"
       THEN sendToSocket(w, ws, Payload("error", NoJson,
                "selected model does not support file attachments", -1))
       ELSE rpcSend(w, m, command)

\* ping that sends nothing back
ping_Silent(w, ws) == w

\* ws.on('message'), msg.type === 'ping'
ping(w, ws) == sendToSocket(w, ws, Payload("pong", NoJson, "", -1))

\* JSON.parse(String(raw)) of an inbound frame: ok is FALSE when it throws,
\* kind is the kind of value parsed, type the value of msg.type when the
\* value is an object that has one
JSONparseMessage(raw) ==
    CASE raw = "null" -> [ok |-> TRUE, kind |-> "null", type |-> ""]
      [] raw = "7" -> [ok |-> TRUE, kind |-> "number", type |-> ""]
      [] raw = "[]" -> [ok |-> TRUE, kind |-> "array", type |-> ""]
      [] raw = "{}" -> [ok |-> TRUE, kind |-> "object", type |-> ""]
      [] raw = "{\"type\":\"noop\"}" -> [ok |-> TRUE, kind |-> "object", type |-> "noop"]
      [] OTHER -> [ok |-> FALSE, kind |-> "", type |-> ""]

\* ws.on('message') for a frame whose msg.type is none of start_session,
\* detach_session, rpc_command and ping: a parse error returns; reading
\* msg.type of null throws a TypeError that nothing catches; any other
\* value falls through every branch
wsMessage(w, ws, raw) ==
    LET msg == JSONparseMessage(raw)
    IN IF ~msg.ok THEN w
       ELSE IF msg.kind = "null" THEN [w EXCEPT !.thrown = TRUE]
       ELSE w

\* ----------------------------------------------------------------- steps
\* thrown: an exception has left the handler uncaught; spawnFails: the agent
\* command cannot be started when the handler spawns it; events: the values
\* the stdout handler has passed to onEvent; errors: the messages the stderr
\* handler has passed to onError
World ==
    [managed |-> managed, rpc |-> rpc, rpcSessions |-> rpcSessions,
     socketBindings |-> socketBindings, effects |-> << >>, thrown |-> FALSE,
     spawnFails |-> FALSE, events |-> << >>, errors |-> << >>]

Sessions == 1..Len(managed)

\* the handlers run in the server process; an uncaught exception ends it
CommitStreams(w, busy, req, text, events, errText, errs) ==
    /\ stderrText' = [m \in 1..Len(w.managed) |->
                         IF m \in DOMAIN errText THEN errText[m] ELSE << >>]
    /\ reported' = [m \in 1..Len(w.managed) |->
                       IF m \in DOMAIN errs THEN errs[m] ELSE << >>]
    /\ stdoutText' = [m \in 1..Len(w.managed) |->
                         IF m \in DOMAIN text THEN text[m] ELSE << >>]
    /\ delivered' = [m \in 1..Len(w.managed) |->
                        IF m \in DOMAIN events THEN events[m] ELSE << >>]
    /\ broker = "running"
    /\ broker' = IF w.thrown THEN "crashed" ELSE "running"
    /\ managed' = w.managed
    /\ rpc' = w.rpc
    /\ rpcSessions' = w.rpcSessions
    /\ socketBindings' = w.socketBindings
    /\ effects' = w.effects
    /\ agentBusy' = [m \in 1..Len(w.managed) |->
                        IF m \in DOMAIN busy THEN busy[m] ELSE FALSE]
    /\ requestedKey' = [c \in Clients |->
                           IF c \in DOMAIN w.socketBindings THEN req[c] ELSE ""]

CommitAll(w, busy, req, text, events) ==
    CommitStreams(w, busy, req, text, events, stderrText, reported)

Commit(w, busy, req) == CommitAll(w, busy, req, stdoutText, delivered)

Init ==
    /\ managed = << >>
    /\ rpc = << >>
    /\ rpcSessions = << >>
    /\ socketBindings = << >>
    /\ readyState = [c \in Clients |-> "CLOSED"]
    /\ agentBusy = << >>
    /\ requestedKey = [c \in Clients |-> ""]
    /\ effects = << >>
    /\ broker = "running"
    /\ stdoutText = << >>
    /\ delivered = << >>
    /\ stderrText = << >>
    /\ reported = << >>

\* wss.on('connection'): a new socket
Connect(ws) ==
    /\ readyState[ws] = "CLOSED"
    /\ readyState' = [readyState EXCEPT ![ws] = "OPEN"]
    /\ Commit(World, agentBusy, requestedKey)

StartSession(ws, msgCwd, msgSessionFile) ==
    /\ readyState[ws] = "OPEN"
    /\ LET w == startSession(World, ws, msgCwd, msgSessionFile)
       IN /\ Len(w.managed) <= MaxSessions
          /\ Commit(w, agentBusy,
                    [requestedKey EXCEPT ![ws] = requestKey(msgCwd, msgSessionFile)])
    /\ UNCHANGED readyState

\* a start_session that constructs a session whose process cannot be started
StartSessionSpawnFails(ws, msgCwd, msgSessionFile) ==
    /\ readyState[ws] = "OPEN"
    /\ LET w == startSession([World EXCEPT !.spawnFails = TRUE],
                             ws, msgCwd, msgSessionFile)
       IN /\ Len(w.managed) > Len(managed)
          /\ Len(w.managed) <= MaxSessions
          /\ Commit(w, agentBusy,
                    [requestedKey EXCEPT ![ws] = requestKey(msgCwd, msgSessionFile)])
    /\ UNCHANGED readyState

\* proc.on('error') of a process that could not be started
SpawnError(m) ==
    /\ m \in Sessions
    /\ rpc[m].proc = "failed"
    /\ Commit(onError([World EXCEPT !.rpc[m].proc = "errored"], m, "spawn ENOENT"),
              agentBusy, requestedKey)
    /\ UNCHANGED readyState

DetachSession(ws) ==
    /\ readyState[ws] = "OPEN"
    /\ Commit(detachSocket(World, ws), agentBusy, requestedKey)
    /\ UNCHANGED readyState

RpcCommand(ws, command) ==
    /\ readyState[ws] = "OPEN"
    /\ Commit(rpcCommand(World, ws, command), agentBusy, requestedKey)
    /\ UNCHANGED readyState

Ping(ws) ==
    /\ readyState[ws] = "OPEN"
    /\ Commit(ping(World, ws), agentBusy, requestedKey)
    /\ UNCHANGED readyState

\* a frame that reaches no branch of the message handler
Message(ws, raw) ==
    /\ readyState[ws] = "OPEN"
    /\ Commit(wsMessage(World, ws, raw), agentBusy, requestedKey)
    /\ UNCHANGED readyState

\* the socket starts closing: readyState leaves OPEN before 'close' is emitted
WsClosing(ws) ==
    /\ readyState[ws] = "OPEN"
    /\ readyState' = [readyState EXCEPT ![ws] = "CLOSING"]
    /\ Commit(World, agentBusy, requestedKey)

\* ws.on('close')
WsClose(ws) ==
    /\ readyState[ws] = "CLOSING"
    /\ readyState' = [readyState EXCEPT ![ws] = "CLOSED"]
    /\ Commit(detachSocket(World, ws), agentBusy, requestedKey)

\* the idle timer of session m fires
IdleTimerFire(m) ==
    /\ m \in Sessions
    /\ managed[m].idleCleanupTimer
    /\ Commit(idleCleanupCallback(World, m), agentBusy, requestedKey)
    /\ UNCHANGED readyState

\* the lifecycle of the agent after it wrote the lines of a chunk
RECURSIVE busyAfter(_, _)
busyAfter(busy, chunk) ==
    IF chunk = << >> THEN busy
    ELSE busyAfter(IF Head(chunk).type = "agent_start" THEN TRUE
                   ELSE IF Head(chunk).type = "agent_end" THEN FALSE
                   ELSE busy, Tail(chunk))

\* the process of session m writes a chunk of lines to its stdout
StdoutData(m, chunk) ==
    /\ rpc[m].proc = "running"
    /\ Commit(stdoutData(World, m, chunk),
              [agentBusy EXCEPT ![m] = busyAfter(@, chunk)], requestedKey)
    /\ UNCHANGED readyState

\* the process of session m writes a chunk of text to its stdout
StdoutChunk(m, chunk) ==
    /\ rpc[m].proc = "running"
    /\ Len(stdoutText[m]) + Len(chunk) <= MaxStreamLen
    /\ LET w == stdoutChunk(World, m, chunk)
       IN CommitAll(w, [agentBusy EXCEPT ![m] = busyAfter(@, w.events)], requestedKey,
                    [stdoutText EXCEPT ![m] = @ \o chunk],
                    [delivered EXCEPT ![m] = @ \o w.events])
    /\ UNCHANGED readyState

\* the process of session m writes to its stderr
StderrData(m, chunk) ==
    /\ rpc[m].proc = "running"
    /\ Commit(stderrChunk(World, m, chunk), agentBusy, requestedKey)
    /\ UNCHANGED readyState

\* the process of session m writes a chunk of text to its stderr
StderrChunk(m, chunk) ==
    /\ rpc[m].proc = "running"
    /\ Len(stderrText[m]) + Len(chunk) <= MaxErrLen
    /\ LET w == stderrChunk(World, m, chunk)
       IN CommitStreams(w, agentBusy, requestedKey, stdoutText, delivered,
                        [stderrText EXCEPT ![m] = @ \o chunk],
                        [reported EXCEPT ![m] = @ \o w.errors])
    /\ UNCHANGED readyState

\* the process of session m exits
ProcExit(m, code) ==
    /\ rpc[m].proc = "running"
    /\ Commit(onExit([World EXCEPT !.rpc[m].proc = "exited"], m, code),
              [agentBusy EXCEPT ![m] = FALSE], requestedKey)
    /\ UNCHANGED readyState

\* the process of session m is terminated by the signal it was sent
SignalExit(m) ==
    /\ m \in Sessions
    /\ rpc[m].proc = "running"
    /\ rpc[m].killed
    /\ Commit(onExit([World EXCEPT !.rpc[m].proc = "exited"], m, NullCode),
              [agentBusy EXCEPT ![m] = FALSE], requestedKey)
    /\ UNCHANGED readyState

\* the 2000 ms timer of RpcSession.kill fires
KillTimerFire(m) ==
    /\ m \in Sessions
    /\ rpc[m].sigkillTimer
    /\ Commit(sigkillCallback(World, m), agentBusy, requestedKey)
    /\ UNCHANGED readyState

\* a holder of the transport of session m calls send(command)
Send(m, command) ==
    /\ Commit(rpcSend(World, m, command), agentBusy, requestedKey)
    /\ UNCHANGED readyState

\* a holder of the transport of session m calls kill()
Kill(m) ==
    /\ Commit(rpcKill(World, m), agentBusy, requestedKey)
    /\ UNCHANGED readyState

\* The session lifecycle: attach, detach, disconnect, idle reclaim, the agent's
\* lifecycle events and key discovery, process exit.
Next ==
    \/ \E ws \in Clients : Connect(ws)
    \/ \E ws \in Clients, c \in CwdInputs, f \in SessionFileInputs : StartSession(ws, c, f)
    \/ \E ws \in Clients : DetachSession(ws)
    \/ \E ws \in Clients : WsClosing(ws)
    \/ \E ws \in Clients : WsClose(ws)
    \/ \E m \in Sessions : IdleTimerFire(m)
    \/ \E m \in Sessions, line \in LifecycleLines : StdoutData(m, <<line>>)
    \/ \E m \in Sessions, code \in ExitCodes : ProcExit(m, code)

Spec == Init /\ [][Next]_vars

\* Commands and the model capability: the lifecycle steps, with the agent
\* describing its model and the clients sending commands.
NextCommands ==
    \/ \E ws \in Clients : Connect(ws)
    \/ \E ws \in Clients, c \in CwdInputs, f \in SessionFileInputs : StartSession(ws, c, f)
    \/ \E ws \in Clients : DetachSession(ws)
    \/ \E ws \in Clients : WsClosing(ws)
    \/ \E ws \in Clients : WsClose(ws)
    \/ \E m \in Sessions : IdleTimerFire(m)
    \/ \E m \in Sessions, line \in ModelLines : StdoutData(m, <<line>>)
    \/ \E m \in Sessions, code \in ExitCodes : ProcExit(m, code)
    \/ \E ws \in Clients, command \in Commands : RpcCommand(ws, command)

SpecCommands == Init /\ [][NextCommands]_vars

\* The model capability: new sessions, whose agents report their model in
\* every form.
NextCapability ==
    \/ \E ws \in Clients : Connect(ws)
    \/ \E ws \in Clients, c \in CwdInputs : StartSession(ws, c, NoFile)
    \/ \E ws \in Clients : DetachSession(ws)
    \/ \E m \in Sessions, line \in CapabilityLines : StdoutData(m, <<line>>)
    \/ \E m \in Sessions, code \in ExitCodes : ProcExit(m, code)

SpecCapability == Init /\ [][NextCapability]_vars

\* Key discovery: the lifecycle steps, with agents that report a session file
\* in get_state responses and may report another one later.
NextKeys ==
    \/ \E ws \in Clients : Connect(ws)
    \/ \E ws \in Clients, c \in CwdInputs, f \in SessionFileInputs : StartSession(ws, c, f)
    \/ \E ws \in Clients : DetachSession(ws)
    \/ \E m \in Sessions : IdleTimerFire(m)
    \/ \E m \in Sessions, p \in ReportedPaths :
          StdoutData(m, <<Json("response", "get_state", TRUE, p, "none", 0)>>)
    \/ \E m \in Sessions, code \in ExitCodes : ProcExit(m, code)

SpecKeys == Init /\ [][NextKeys]_vars

\* Diagnostics: one client attaches to one session, whose process writes
\* every text of up to MaxErrLen pieces to its stderr in every division into
\* chunks.
NextStderr ==
    \/ Connect(1)
    \/ \E c \in CwdInputs : StartSession(1, c, NoFile)
    \/ \E m \in Sessions, chunk \in ErrChunks : StderrChunk(m, chunk)

SpecStderr == Init /\ [][NextStderr]_vars

\* Errors: the lifecycle steps, with agents that write events and diagnostics
\* and agent processes that may fail to start.
NextErrors ==
    \/ \E ws \in Clients : Connect(ws)
    \/ \E ws \in Clients, c \in CwdInputs, f \in SessionFileInputs : StartSession(ws, c, f)
    \/ \E ws \in Clients, c \in CwdInputs : StartSessionSpawnFails(ws, c, NoFile)
    \/ \E m \in Sessions : SpawnError(m)
    \/ \E ws \in Clients : DetachSession(ws)
    \/ \E ws \in Clients : WsClosing(ws)
    \/ \E ws \in Clients : WsClose(ws)
    \/ \E m \in Sessions : IdleTimerFire(m)
    \/ \E m \in Sessions :
          StdoutData(m, <<Json("message_update", "", FALSE, NoFile, "none", 0)>>)
    \/ \E m \in Sessions, chunk \in DiagnosticChunks : StderrData(m, chunk)
    \/ \E m \in Sessions, code \in ExitCodes : ProcExit(m, code)

SpecErrors == Init /\ [][NextErrors]_vars

\* Key names: clients attach and detach, asking for directories and files
\* whose names hold the separator or the sentinel of buildSessionKey.
NextNames ==
    \/ \E ws \in Clients : Connect(ws)
    \/ \E ws \in Clients, c \in NamedCwdInputs, f \in NamedFileInputs :
          StartSession(ws, c, f)
    \/ \E ws \in Clients : DetachSession(ws)
    \/ \E m \in Sessions : IdleTimerFire(m)

SpecNames == Init /\ [][NextNames]_vars

\* The event stream: new sessions only, the stdout of a process arriving in
\* chunks of several lines.
NextStream ==
    \/ \E ws \in Clients : Connect(ws)
    \/ \E ws \in Clients, c \in CwdInputs : StartSession(ws, c, NoFile)
    \/ \E ws \in Clients : DetachSession(ws)
    \/ \E ws \in Clients : WsClosing(ws)
    \/ \E ws \in Clients : WsClose(ws)
    \/ \E m \in Sessions : IdleTimerFire(m)
    \/ \E m \in Sessions, chunk \in StreamChunks : StdoutData(m, chunk)
    \/ \E m \in Sessions, code \in ExitCodes : ProcExit(m, code)

SpecStream == Init /\ [][NextStream]_vars

\* The frames that touch no session: the attach and detach steps, with
\* clients sending pings and frames the handler does not recognise.
NextFrames ==
    \/ \E ws \in Clients : Connect(ws)
    \/ \E ws \in Clients, c \in CwdInputs, f \in SessionFileInputs : StartSession(ws, c, f)
    \/ \E ws \in Clients : DetachSession(ws)
    \/ \E ws \in Clients : WsClosing(ws)
    \/ \E ws \in Clients : WsClose(ws)
    \/ \E m \in Sessions : IdleTimerFire(m)
    \/ \E m \in Sessions, code \in ExitCodes : ProcExit(m, code)
    \/ \E ws \in Clients : Ping(ws)
    \/ \E ws \in Clients, raw \in MalformedPayloads : Message(ws, raw)

SpecFrames == Init /\ [][NextFrames]_vars

\* The transport: sessions are constructed by attach requests, and send and
\* kill are called on their transports at any time and any number of times.
NextTransport ==
    \/ \E ws \in Clients : Connect(ws)
    \/ \E ws \in Clients, c \in CwdInputs, f \in SessionFileInputs : StartSession(ws, c, f)
    \/ \E m \in Sessions, command \in SendInputs : Send(m, command)
    \/ \E m \in Sessions : Kill(m)
    \/ \E m \in Sessions : KillTimerFire(m)
    \/ \E m \in Sessions, code \in ExitCodes : ProcExit(m, code)
    \/ \E m \in Sessions : SignalExit(m)

SpecTransport == Init /\ [][NextTransport]_vars

\* The 2000 ms timer fires, and a process that was sent SIGKILL terminates.
FairTransport ==
    /\ SpecTransport
    /\ \A m \in 1..MaxSessions :
          /\ WF_vars(KillTimerFire(m))
          /\ WF_vars(SignalExit(m) /\ rpc[m].forced)

\* Process start: the lifecycle steps, with agent processes that may fail to
\* start.
NextSpawn ==
    \/ \E ws \in Clients : Connect(ws)
    \/ \E ws \in Clients, c \in CwdInputs : StartSession(ws, c, NoFile)
    \/ \E ws \in Clients, c \in CwdInputs : StartSessionSpawnFails(ws, c, NoFile)
    \/ \E m \in Sessions : SpawnError(m)
    \/ \E ws \in Clients : DetachSession(ws)
    \/ \E ws \in Clients : WsClosing(ws)
    \/ \E ws \in Clients : WsClose(ws)
    \/ \E m \in Sessions : IdleTimerFire(m)
    \/ \E m \in Sessions, code \in ExitCodes : ProcExit(m, code)

SpecSpawn == Init /\ [][NextSpawn]_vars

\* Output framing: one client attaches to one session, whose process writes
\* every text of up to MaxStreamLen pieces in every division into chunks.
NextFraming ==
    \/ Connect(1)
    \/ \E c \in CwdInputs : StartSession(1, c, NoFile)
    \/ \E m \in Sessions, chunk \in TextChunks : StdoutChunk(m, chunk)

SpecFraming == Init /\ [][NextFraming]_vars

\* A timer that stays pending fires: setTimeout callbacks are run by the event loop.
FairSpec == Spec /\ \A m \in 1..MaxSessions : WF_vars(IdleTimerFire(m))

\* ================================================================ claims
\* the key a session was created under
CreationKey(m) == buildSessionKey(managed[m].cwd, managed[m].sessionFile)

Bound(ws) == ws \in DOMAIN socketBindings

\* no session has been torn down (by idle reclaim or by process exit)
NoTeardownYet == \A m \in Sessions : ~managed[m].isClosing

C2_SingleFlight ==
    \A k \in UNION {managed[m].keys : m \in Sessions} :
        Cardinality({m \in Sessions : /\ ~managed[m].isClosing
                                      /\ rpc[m].proc = "running"
                                      /\ k \in managed[m].keys}) <= 1

\* C3: two bound clients whose last start_session used the same key are bound
\* to the same session.
C3_EqualKeysSameSession ==
    \A c1, c2 \in Clients :
        (Bound(c1) /\ Bound(c2) /\ requestedKey[c1] = requestedKey[c2])
            => socketBindings[c1] = socketBindings[c2]

\* the handler of this step constructed a transport
Spawned == Len(rpc') > Len(rpc)

\* a live session created under the new-session key that a get_state response
\* has since registered under a discovered key
Promoted(m) ==
    /\ managed[m].sessionFile = NoFile
    /\ ~managed[m].isClosing
    /\ rpc[m].proc = "running"
    /\ managed[m].keys # {CreationKey(m)}

\* C4: a get_state response spawns nothing, and an attach that uses one of the
\* keys of a live promoted session (its new-session key or its discovered
\* key) binds the client to that session, adds it to the session's clients and
\* constructs no transport.
C4_PromotedSessionReached ==
    /\ [][\A m \in Sessions, line \in LifecycleLines :
             StdoutData(m, <<line>>) => ~Spawned]_vars
    /\ [][\A ws \in Clients, c \in CwdInputs, f \in SessionFileInputs :
             StartSession(ws, c, f) =>
                 \A m \in Sessions :
                     (Promoted(m) /\ requestKey(c, f) \in managed[m].keys) =>
                         /\ Get(socketBindings', ws) = m
                         /\ ws \in managed'[m].clients
                         /\ ~Spawned]_vars

\* the handler of this step asked the process of session m to terminate
Killed(m) == rpc'[m].killed /\ ~rpc[m].killed

\* session m became closing in this step
Closed(m) == managed'[m].isClosing /\ ~managed[m].isClosing

\* C5: when the last client leaves a session that is not running, its idle
\* timer is pending afterwards; a step that gives a session with a pending
\* timer a client cancels the timer and neither closes nor kills it; and a
\* process is only ever killed from a state where its session's timer is
\* pending and its client set empty, so a cancelled timer kills nothing.
C5_DetachArmsAttachCancels ==
    /\ [][\A m \in Sessions :
             (/\ managed[m].clients # {}
              /\ managed'[m].clients = {}
              /\ ~managed[m].isAgentRunning
              /\ ~managed'[m].isClosing) => managed'[m].idleCleanupTimer]_vars
    /\ [][\A m \in Sessions :
             (managed[m].idleCleanupTimer /\ managed'[m].clients # {}) =>
                 /\ ~managed'[m].idleCleanupTimer
                 /\ ~Killed(m)
                 /\ ~managed'[m].isClosing]_vars
    /\ [][\A m \in Sessions :
             Killed(m) => managed[m].idleCleanupTimer /\ managed[m].clients = {}]_vars

\* an attach has just cancelled the pending timer of the live session it joined
C5_Witness ==
    \E ws \in Clients, i \in DOMAIN effects :
        /\ Bound(ws)
        /\ effects[i].fx = "clearTimeout"
        /\ effects[i].id = socketBindings[ws]
        /\ ~managed[socketBindings[ws]].isClosing
        /\ ~rpc[socketBindings[ws]].killed

\* C6: a session is closed by idle reclaim (closed while its process has not
\* exited, or its process asked to terminate) only when the agent is not
\* running: the last lifecycle event of its process was not agent_start.
C6_RunningNeverReclaimed ==
    [][\A m \in Sessions :
          (Killed(m) \/ (Closed(m) /\ rpc'[m].proc = "running")) =>
              ~agentBusy[m] /\ ~managed[m].isAgentRunning]_vars

\* a live session without clients whose agent is running
C6_Witness ==
    \E m \in Sessions :
        /\ managed[m].clients = {}
        /\ managed[m].isAgentRunning
        /\ agentBusy[m]
        /\ ~managed[m].isClosing
        /\ rpc[m].proc = "running"

\* a live session without clients whose agent is not running
Idle(m) ==
    /\ m \in Sessions
    /\ ~managed[m].isClosing
    /\ managed[m].clients = {}
    /\ ~managed[m].isAgentRunning

\* C7: an idle session is eventually closed, unless a client attaches or the
\* agent starts first; and the timer that fires on an idle session asks the
\* process to terminate (and does nothing else to the outside), marks the
\* session closing and leaves no registry key pointing at it.
C7_IdleEventuallyReclaimed ==
    /\ \A m \in 1..MaxSessions :
          Idle(m) ~> (/\ m \in Sessions
                      /\ \/ managed[m].isClosing
                         \/ managed[m].clients # {}
                         \/ managed[m].isAgentRunning)
    /\ [][\A m \in Sessions :
             (Idle(m) /\ IdleTimerFire(m)) =>
                 /\ effects' = <<Fx("kill", m, NoPayload)>>
                 /\ rpc'[m].killed
                 /\ managed'[m].isClosing
                 /\ managed'[m].keys = {}
                 /\ \A k \in DOMAIN rpcSessions' : rpcSessions'[k] # m]_vars

\* the idle timer has just closed a session: its process was asked to terminate
C7_Witness ==
    \E m \in Sessions :
        /\ effects = <<Fx("kill", m, NoPayload)>>
        /\ managed[m].isClosing
        /\ rpc[m].killed
        /\ rpc[m].proc = "running"
        /\ \A k \in DOMAIN rpcSessions : rpcSessions[k] # m

\* the envelopes of the given type that the last handler sent to client ws
SentTo(fx, ws, type) ==
    SelectSeq(fx, LAMBDA e : e.fx = "ws.send" /\ e.id = ws /\ e.type = type)

\* the events of the rpc_event envelopes that the last handler sent to ws
EventsSentTo(fx, ws) ==
    [i \in 1..Len(SentTo(fx, ws, "rpc_event")) |-> SentTo(fx, ws, "rpc_event")[i].json]

AttachmentError(ws) ==
    Fx("ws.send", ws,
       Payload("error", NoJson, "selected model does not support file attachments", -1))

\* C8 as stated: a command with images is answered with an error and not
\* written when the flag of the bound session is "false", and written to the
\* transport when the flag is "true" or "null".
C8_ImagesRejectedWhenUnsupported ==
    [][\A ws \in Clients, command \in Commands :
          (RpcCommand(ws, command) /\ Bound(ws) /\ command.images > 0) =>
              LET m == socketBindings[ws]
              IN IF managed[m].currentModelSupportsImages = "false"
                 THEN effects' = <<AttachmentError(ws)>>
                 ELSE effects' = <<Fx("stdin.write", m, Payload("line", command, "", -1))>>]_vars

\* C8 amended: a prompt, steer or follow_up command with images is answered
\* with an error and not written when the flag of the bound session is
\* "false"; it is written to the transport when the flag is "true" or "null",
\* and a command with images of any other type is written whatever the flag.
C8_PromptImagesRejectedWhenUnsupported ==
    [][\A ws \in Clients, command \in Commands :
          (RpcCommand(ws, command) /\ Bound(ws) /\ command.images > 0) =>
              LET m == socketBindings[ws]
              IN IF command.type \in PromptLike
                    /\ managed[m].currentModelSupportsImages = "false"
                 THEN effects' = <<AttachmentError(ws)>>
                 ELSE effects' = <<Fx("stdin.write", m, Payload("line", command, "", -1))>>]_vars

\* a command with images has just been rejected for a session whose model is
\* known not to take images
C8_Witness ==
    \E ws \in Clients :
        /\ Bound(ws)
        /\ managed[socketBindings[ws]].currentModelSupportsImages = "false"
        /\ effects = <<AttachmentError(ws)>>

\* the lines of a chunk that parse as JSON, in the order of the chunk
ValidLines(chunk) == SelectSeq(chunk, LAMBDA line : line # NoJson)

\* rpc_event envelopes are sent only by the stdout handler of a session, to
\* clients of that session
EventsOnlyFromStdout ==
    [][(\E i \in DOMAIN effects' : effects'[i].type = "rpc_event") =>
          \E m \in Sessions, chunk \in StreamChunks :
              /\ StdoutData(m, chunk)
              /\ \A i \in DOMAIN effects' : effects'[i].id \in managed[m].clients]_vars

\* C9 as stated: each chunk of stdout reaches every client in the session's
\* client set as the rpc_event envelopes of its valid lines, in emission order.
C9_SameOrderForAttached ==
    /\ EventsOnlyFromStdout
    /\ [][\A m \in Sessions, chunk \in StreamChunks :
             StdoutData(m, chunk) =>
                 \A ws \in managed[m].clients :
                     EventsSentTo(effects', ws) = ValidLines(chunk)]_vars

\* C9 amended: each chunk of stdout reaches every client in the session's
\* client set whose socket is open as the rpc_event envelopes of its valid
\* lines, in emission order, so two clients that stay attached with open
\* sockets receive identical sequences; a client whose socket is no longer
\* open receives nothing.
C9_SameOrderForOpenAttached ==
    /\ EventsOnlyFromStdout
    /\ [][\A m \in Sessions, chunk \in StreamChunks :
             StdoutData(m, chunk) =>
                 \A ws \in managed[m].clients :
                     EventsSentTo(effects', ws) =
                         IF readyState[ws] = "OPEN" THEN ValidLines(chunk) ELSE << >>]_vars

\* two clients of one session have just received the two events of one chunk
C9_Witness ==
    \E m \in Sessions, c1, c2 \in Clients :
        /\ c1 # c2
        /\ {c1, c2} \subseteq managed[m].clients
        /\ Len(EventsSentTo(effects, c1)) = 2
        /\ EventsSentTo(effects, c1)[1] # EventsSentTo(effects, c1)[2]
        /\ EventsSentTo(effects, c1) = EventsSentTo(effects, c2)

SessionEnded(ws, code) == Fx("ws.send", ws, Payload("session_ended", NoJson, "", code))

NoActiveSession(ws) ==
    Fx("ws.send", ws, Payload("error", NoJson, "no active session", -1))

\* the state of session m after its process has exited: closing, in no
\* registry entry, in no binding, without clients, and an rpc_command of a
\* client that was attached is answered with the 'no active session' error
TornDown(m) ==
    /\ managed'[m].isClosing
    /\ \A k \in DOMAIN rpcSessions' : rpcSessions'[k] # m
    /\ \A ws \in DOMAIN socketBindings' : socketBindings'[ws] # m
    /\ managed'[m].clients = {}
    /\ \A ws \in managed[m].clients, command \in Commands :
          readyState[ws] = "OPEN" =>
              rpcCommand(World', ws, command).effects = <<NoActiveSession(ws)>>

\* C10 as stated: on process exit every client in the client set is sent
\* session_ended, and the session is torn down.
C10_ExitTearsDown ==
    [][\A m \in Sessions, code \in ExitCodes :
          ProcExit(m, code) =>
              /\ \A ws \in managed[m].clients :
                    SentTo(effects', ws, "session_ended") = <<SessionEnded(ws, code)>>
              /\ TornDown(m)]_vars

\* C10 amended: on process exit every client in the client set whose socket
\* is open is sent session_ended (a client whose socket is no longer open is
\* sent nothing), and the session is torn down.
C10_ExitTearsDownOpen ==
    [][\A m \in Sessions, code \in ExitCodes :
          ProcExit(m, code) =>
              /\ \A ws \in managed[m].clients :
                    SentTo(effects', ws, "session_ended") =
                        IF readyState[ws] = "OPEN" THEN <<SessionEnded(ws, code)>>
                        ELSE << >>
              /\ TornDown(m)]_vars

\* a process has just exited and its two clients were told
C10_Witness ==
    \E m \in Sessions, code \in ExitCodes :
        /\ rpc[m].proc = "exited"
        /\ managed[m].isClosing
        /\ effects = <<SessionEnded(1, code), SessionEnded(2, code)>>
        /\ ~Bound(1) /\ ~Bound(2)

\* the registry, the binding table, every session, every transport and every
\* socket are left as they were
StateUnchanged == UNCHANGED <<managed, rpc, rpcSessions, socketBindings, readyState>>

\* C11: an rpc_command from a client without a binding sends exactly one
\* 'no active session' error to that client and nothing else to the outside
\* (no write to any transport), changes no registry, binding, session or
\* transport state, and leaves the client's socket open.
C11_UnboundCommandAnswered ==
    [][\A ws \in Clients, command \in Commands :
          (RpcCommand(ws, command) /\ ~Bound(ws)) =>
              /\ effects' = <<NoActiveSession(ws)>>
              /\ StateUnchanged
              /\ readyState'[ws] = "OPEN"]_vars

\* a client without a binding has just been answered while another client's
\* session is live
C11_Witness ==
    \E ws \in Clients, m \in Sessions :
        /\ ~Bound(ws)
        /\ readyState[ws] = "OPEN"
        /\ effects = <<NoActiveSession(ws)>>
        /\ ~managed[m].isClosing
        /\ rpc[m].proc = "running"
        /\ managed[m].clients # {}

\* C14: every client is in the client set of at most one session, and a
\* client is in the client set of session m exactly when the binding table
\* maps the client to m.
C14_ClientSetsMatchBindings ==
    \A ws \in Clients :
        /\ Cardinality({m \in Sessions : ws \in managed[m].clients}) <= 1
        /\ \A m \in Sessions :
              ws \in managed[m].clients <=> Get(socketBindings, ws) = m

\* the two clients are bound to two different live sessions
C14_Witness ==
    \E c1, c2 \in Clients :
        /\ Bound(c1) /\ Bound(c2)
        /\ socketBindings[c1] # socketBindings[c2]
        /\ managed[socketBindings[c1]].clients = {c1}
        /\ managed[socketBindings[c2]].clients = {c2}
        /\ ~managed[socketBindings[c1]].isClosing
        /\ ~managed[socketBindings[c2]].isClosing

\* C15: every session that is not closing is the registry's entry for the
\* key it was created under.
C15_CreationKeyReachesSession ==
    \A m \in Sessions :
        ~managed[m].isClosing => Get(rpcSessions, CreationKey(m)) = m

\* C16: a session that is closing stays closing in every later state, no
\* step gives a closing session a client, and a start_session that looks its
\* key up (the client is not already bound to a session holding the key) and
\* finds a closing session constructs a fresh session and binds the client
\* to it.
C16_ClosingIsPermanent ==
    /\ [][\A m \in Sessions :
             managed[m].isClosing =>
                 /\ managed'[m].isClosing
                 /\ managed'[m].clients \subseteq managed[m].clients]_vars
    /\ [][\A ws \in Clients, c \in CwdInputs, f \in SessionFileInputs :
             StartSession(ws, c, f) =>
                 LET key == requestKey(c, f)
                     found == Get(rpcSessions, key)
                     holdsKey == Bound(ws) /\ key \in managed[socketBindings[ws]].keys
                 IN (~holdsKey /\ found # NoSession /\ managed[found].isClosing) =>
                        /\ Spawned
                        /\ Get(socketBindings', ws) = Len(managed')
                        /\ ws \notin managed'[found].clients]_vars

\* a start_session has just constructed a fresh session for a key that a
\* closing session (asked to terminate, not yet exited) holds
C16_Witness ==
    \E ws \in Clients, m \in Sessions :
        /\ managed[m].isClosing
        /\ rpc[m].proc = "running"
        /\ Bound(ws)
        /\ socketBindings[ws] = Len(managed)
        /\ socketBindings[ws] # m
        /\ requestedKey[ws] \in managed[m].keys
        /\ Len(effects) > 0
        /\ effects[1] = Fx("spawn", Len(managed), NoPayload)

\* C12: a frame that is not JSON, or is JSON but not an object with a
\* recognised type, is ignored: nothing is sent or written, no state changes,
\* the socket stays open and the server process keeps running.
C12_MalformedIgnored ==
    [][\A ws \in Clients, raw \in MalformedPayloads :
          Message(ws, raw) =>
              /\ effects' = << >>
              /\ StateUnchanged
              /\ readyState'[ws] = "OPEN"
              /\ broker' = "running"]_vars

Pong(ws) == Fx("ws.send", ws, Payload("pong", NoJson, "", -1))

\* C13: a ping is answered with exactly one pong to its sender and nothing
\* else, and leaves the registry, the bindings, every session and every
\* transport unchanged, whether the sender is attached or not.
C13_PingAnsweredLocally ==
    [][\A ws \in Clients :
          Ping(ws) => effects' = <<Pong(ws)>> /\ StateUnchanged]_vars

\* an attached client has just been sent a pong while a session without
\* clients waits for its idle timer
C13_Witness ==
    \E ws \in Clients, m \in Sessions :
        /\ Bound(ws)
        /\ effects = <<Pong(ws)>>
        /\ managed[m].idleCleanupTimer
        /\ socketBindings[ws] # m

\* the calls of the given kind that the handler of a step made on session m
Calls(fx, kind, m) == SelectSeq(fx, LAMBDA e : e.fx = kind /\ e.id = m)

IsJsonLine(e) == e.type = "line" /\ e.message = ""

\* C18: send on a transport that was told to stop, or whose process no
\* longer takes input, writes nothing, raises nothing and changes no state;
\* any other send writes exactly one line, the JSON text of its command, and
\* changes no state.
C18_SendWritesOneJsonLine ==
    [][\A m \in Sessions, command \in SendInputs :
          Send(m, command) =>
              /\ StateUnchanged
              /\ broker' = "running"
              /\ IF rpc[m].killed \/ rpc[m].proc # "running"
                 THEN effects' = << >>
                 ELSE /\ Len(effects') = 1
                      /\ effects'[1].fx = "stdin.write"
                      /\ effects'[1].id = m
                      /\ IsJsonLine(effects'[1])
                      /\ effects'[1].json = command]_vars

\* C19: when the agent process cannot be started, the failure reaches the
\* server as a process exit: the step that reports it sends session_ended to
\* the session's open clients and tears the session down, and no exception
\* leaves the handler that constructed the transport.
C19_SpawnFailureEndsSession ==
    /\ [][\A m \in Sessions :
             SpawnError(m) =>
                 /\ \A ws \in managed[m].clients :
                       readyState[ws] = "OPEN" =>
                           Len(SentTo(effects', ws, "session_ended")) = 1
                 /\ TornDown(m)]_vars
    /\ [][\A ws \in Clients, c \in CwdInputs :
             StartSessionSpawnFails(ws, c, NoFile) => broker' = "running"]_vars

\* the positions of the newlines of a text
NewlineAt(text) == {i \in 1..Len(text) : text[i] = "\n"}

\* the position of the k-th newline of a text
NthNewline(text, k) ==
    CHOOSE i \in NewlineAt(text) : Cardinality({j \in NewlineAt(text) : j <= i}) = k

\* the position of the last newline of a text; 0 when it has none
LastNewline(text) ==
    IF NewlineAt(text) = {} THEN 0
    ELSE CHOOSE i \in NewlineAt(text) : \A j \in NewlineAt(text) : j <= i

\* the newline-terminated lines of a text, in the order of the text
TerminatedLines(text) ==
    [k \in 1..Cardinality(NewlineAt(text)) |->
        LET end == NthNewline(text, k)
        IN SubSeq(text, LastNewline(SubSeq(text, 1, end - 1)) + 1, end - 1)]

\* the values of the newline-terminated lines of a text that parse as JSON
ParsedLines(text) ==
    LET parsing == SelectSeq(TerminatedLines(text), LAMBDA line : JSONparseLine(line).ok)
    IN [k \in 1..Len(parsing) |-> JSONparseLine(parsing[k]).value]

\* C20: whatever chunks the stdout text of a process arrived in, the events
\* passed to the event callback are the values of its newline-terminated
\* lines that parse as JSON, in the order of the text (a line that does not
\* parse is dropped and changes nothing for later lines), and the buffer
\* holds the text after the last newline.
C20_FramingIndependentOfChunks ==
    \A m \in Sessions :
        /\ delivered[m] = ParsedLines(stdoutText[m])
        /\ rpc[m].buffer =
               SubSeq(stdoutText[m], LastNewline(stdoutText[m]) + 1, Len(stdoutText[m]))

\* two different events have been delivered from a text that also had a line
\* that does not parse, the second of them by the last chunk alone
C20_Witness ==
    \E m \in Sessions :
        /\ Len(delivered[m]) = 2
        /\ delivered[m][1] # delivered[m][2]
        /\ Len(TerminatedLines(stdoutText[m])) > 2
        /\ EventsSentTo(effects, 1) = <<delivered[m][2]>>

\* the outside calls of a start_session that joins or creates its target
\* after the client left session x
RebindCalls(x, ws, c, f) ==
    LET key == requestKey(c, f)
        found == Get(rpcSessions, key)
        create == found = NoSession \/ managed[found].isClosing
        target == IF create THEN Len(managed) + 1 ELSE found
        file == IF f # NoFile THEN basename(f) ELSE NoFile
        leaves == IF managed[x].clients = {ws} /\ ~managed[x].isAgentRunning
                     /\ ~managed[x].isClosing
                  THEN <<Fx("setTimeout", x, NoPayload)>> ELSE << >>
        joins == IF create
                 THEN <<Fx("spawn", target, NoPayload)>>
                      \o (IF file # NoFile
                          THEN <<Fx("stdin.write", target,
                                    Payload("line",
                                        Json("switch_session", "", FALSE,
                                             getSessionFilePath(resolve(c), file), "none", 0),
                                        "", -1))>>
                          ELSE << >>)
                 ELSE IF managed[found].idleCleanupTimer
                 THEN <<Fx("clearTimeout", found, NoPayload)>> ELSE << >>
    IN leaves \o joins

\* C21: a start_session from a client whose session holds the requested key
\* constructs nothing and leaves the registry, the bindings, every transport
\* and every session unchanged, except that a pending idle timer of that
\* session is cancelled.
C21_AttachedStartIsIdempotent ==
    [][\A ws \in Clients, c \in CwdInputs, f \in SessionFileInputs :
          (/\ StartSession(ws, c, f)
           /\ Bound(ws)
           /\ requestKey(c, f) \in managed[socketBindings[ws]].keys) =>
              LET x == socketBindings[ws]
              IN /\ ~Spawned
                 /\ UNCHANGED <<rpc, rpcSessions, socketBindings, readyState>>
                 /\ managed' = [managed EXCEPT ![x].idleCleanupTimer = FALSE]
                 /\ effects' = IF managed[x].idleCleanupTimer
                               THEN <<Fx("clearTimeout", x, NoPayload)>> ELSE << >>]_vars

\* a client is the only one attached to a promoted session and has asked
\* for the session's discovered key
C21_Witness ==
    \E ws \in Clients :
        /\ Bound(ws)
        /\ requestedKey[ws] \in managed[socketBindings[ws]].keys
        /\ requestedKey[ws] # CreationKey(socketBindings[ws])
        /\ managed[socketBindings[ws]].clients = {ws}
        /\ effects = << >>

\* C22: a start_session from a client attached to session x with a key that
\* x does not hold takes the client out of x's client set and binding, arms
\* x's idle timer when that leaves x without clients and not running, and
\* after that resolves or creates the target, adds the client to it, leaves
\* the target's timer cancelled and binds the client to it.
C22_RebindDetachesFirst ==
    [][\A ws \in Clients, c \in CwdInputs, f \in SessionFileInputs :
          (/\ StartSession(ws, c, f)
           /\ Bound(ws)
           /\ requestKey(c, f) \notin managed[socketBindings[ws]].keys) =>
              LET x == socketBindings[ws]
                  target == socketBindings'[ws]
              IN /\ target # x
                 /\ ws \notin managed'[x].clients
                 /\ (managed'[x].clients = {} /\ ~managed[x].isAgentRunning) =>
                        managed'[x].idleCleanupTimer
                 /\ ws \in managed'[target].clients
                 /\ ~managed'[target].idleCleanupTimer
                 /\ ~managed'[target].isClosing
                 /\ requestKey(c, f) \in managed'[target].keys
                 /\ effects' = RebindCalls(x, ws, c, f)]_vars

\* a client has just left a session, whose timer was armed, for a session
\* that was constructed for it
C22_Witness ==
    \E ws \in Clients, x \in Sessions :
        /\ Bound(ws)
        /\ socketBindings[ws] = Len(managed)
        /\ x # Len(managed)
        /\ managed[x].idleCleanupTimer
        /\ Len(effects) >= 2
        /\ effects[1] = Fx("setTimeout", x, NoPayload)
        /\ effects[2] = Fx("spawn", Len(managed), NoPayload)

C25_PromotionAddsKey ==
    [][\A m \in Sessions, p \in DiscoveredPaths \ {NoFile} :
          StdoutData(m, <<Json("response", "get_state", TRUE, p, "none", 0)>>) =>
              LET key == buildSessionKey(managed[m].cwd, basename(p))
              IN /\ ~Spawned
                 /\ managed'[m].keys = managed[m].keys \cup {key}
                 /\ Get(rpcSessions', key) = m
                 /\ \A k \in DOMAIN rpcSessions \ {key} :
                       Get(rpcSessions', k) = rpcSessions[k]
                 /\ DOMAIN rpcSessions' = DOMAIN rpcSessions \cup {key}
                 /\ (Get(rpcSessions, key) = m /\ key \in managed[m].keys) =>
                        UNCHANGED <<rpcSessions, managed>>]_vars

\* a live session created without a file holds its creation key and a
\* discovered key, both mapped to it, and has just broadcast the response
C25_Witness ==
    \E m \in Sessions, ws \in Clients :
        /\ ~managed[m].isClosing
        /\ Cardinality(managed[m].keys) = 2
        /\ \A k \in managed[m].keys : Get(rpcSessions, k) = m
        /\ Len(effects) = 1
        /\ effects[1].id = ws
        /\ effects[1].json.command = "get_state"

\* C24: once the capability flag of a session is true or false no step sets
\* it back to null, and an event that carries no modality list (a
\* model_changed, a get_state response or a set_model response, successful
\* or not) leaves the flag as it was.
C24_CapabilityNeverUnknownAgain ==
    [][\A m \in Sessions :
          /\ managed[m].currentModelSupportsImages # "null" =>
                 managed'[m].currentModelSupportsImages # "null"
          /\ \A line \in CapabilityLines :
                 (line.model = "none" /\ StdoutData(m, <<line>>)) =>
                     managed'[m].currentModelSupportsImages
                         = managed[m].currentModelSupportsImages]_vars

\* a session whose flag is false has just broadcast a successful set_model
\* response without a modality list
C24_Witness ==
    \E m \in Sessions :
        /\ managed[m].currentModelSupportsImages = "false"
        /\ Len(effects) = 1
        /\ effects[1].fx = "ws.send"
        /\ effects[1].json = Json("response", "set_model", TRUE, NoFile, "none", 0)

\* C26: the key set of a session starts with exactly one key and never holds
\* more than two, whatever get_state responses the agent emits.
C26_AtMostTwoKeys ==
    /\ [](\A m \in Sessions : Cardinality(managed[m].keys) <= 2)
    /\ [][Spawned => Cardinality(managed'[Len(managed')].keys) = 1]_vars

\* the non-empty lines of a text that ends with a newline, each as a string
ErrorLines(text) ==
    LET lines == TerminatedLines(text)
        kept == SelectSeq(lines, LAMBDA line : line # << >>)
    IN [k \in 1..Len(kept) |-> textOf(kept[k])]

\* C29: when the stderr of a process has written whole lines, the error
\* callback has been called once for each non-empty line, with the text of
\* that line, in order, however the text was divided into chunks.
C29_OneErrorPerStderrLine ==
    \A m \in Sessions :
        (stderrText[m] = << >> \/ stderrText[m][Len(stderrText[m])] = "\n") =>
            reported[m] = ErrorLines(stderrText[m])

ErrorEnvelope(ws, message) == Fx("ws.send", ws, Payload("error", NoJson, message, -1))

\* the error envelopes of one message for the clients of a set, in order
ErrorEnvelopes(S, message) ==
    [i \in 1..Cardinality(S) |-> ErrorEnvelope(ClientSeq(S)[i], message)]

\* the registry, the binding table and every field of every session are left
\* as they were
SessionsUnchanged == UNCHANGED <<managed, rpcSessions, socketBindings>>

\* C27 as stated: an error reported by the transport of a session (a
\* diagnostic on stderr, or the failure to start the process) is sent as an
\* error envelope to every client in the client set, and the sessions, the
\* registry and the binding table are left as they were.
C27_ErrorBroadcastToAll ==
    [][\A m \in Sessions :
          /\ \A chunk \in DiagnosticChunks :
                (StderrData(m, chunk) /\ trim(chunk) # << >>) =>
                    /\ effects' = ErrorEnvelopes(managed[m].clients, textOf(trim(chunk)))
                    /\ SessionsUnchanged
          /\ SpawnError(m) =>
                /\ effects' = ErrorEnvelopes(managed[m].clients, "spawn ENOENT")
                /\ SessionsUnchanged]_vars

\* the clients of a session whose socket is open
OpenClients(m) == {c \in managed[m].clients : readyState[c] = "OPEN"}

\* C27 amended: the error envelope is sent to every client in the client set
\* whose socket is open (a client whose socket is no longer open is sent
\* nothing), and the sessions, the registry and the binding table are left
\* as they were.
C27_ErrorBroadcastToOpen ==
    [][\A m \in Sessions :
          /\ \A chunk \in DiagnosticChunks :
                (StderrData(m, chunk) /\ trim(chunk) # << >>) =>
                    /\ effects' = ErrorEnvelopes(OpenClients(m), textOf(trim(chunk)))
                    /\ SessionsUnchanged
          /\ SpawnError(m) =>
                /\ effects' = ErrorEnvelopes(OpenClients(m), "spawn ENOENT")
                /\ SessionsUnchanged]_vars

\* a diagnostic of a live session has just been sent to its two clients
C27_Witness ==
    \E m \in Sessions :
        /\ managed[m].clients = {1, 2}
        /\ ~managed[m].isClosing
        /\ rpc[m].proc = "running"
        /\ effects = <<ErrorEnvelope(1, "a"), ErrorEnvelope(2, "a")>>

\* a step of the callbacks of the transport of session m
CallbackOf(m) ==
    \/ StdoutData(m, <<Json("message_update", "", FALSE, NoFile, "none", 0)>>)
    \/ \E chunk \in DiagnosticChunks : StderrData(m, chunk)
    \/ SpawnError(m)
    \/ \E code \in ExitCodes : ProcExit(m, code)

\* C28: every envelope that a callback of the transport of session m sends
\* (rpc_event, error, session_ended) goes to a client that is in the client
\* set of m and bound to m at that moment; clients that left m and clients of
\* other sessions are sent nothing by it.
C28_BroadcastScopedToSession ==
    [][\A m \in Sessions :
          CallbackOf(m) =>
              \A i \in 1..Len(effects') :
                  effects'[i].fx = "ws.send" =>
                      /\ effects'[i].type \in {"rpc_event", "error", "session_ended"}
                      /\ effects'[i].id \in managed[m].clients
                      /\ Get(socketBindings, effects'[i].id) = m]_vars

\* two live sessions have one open client each, and an event of one of them
\* has just been sent to its client only
C28_Witness ==
    \E m \in Sessions, n \in Sessions, ws \in Clients, other \in Clients :
        /\ m # n
        /\ managed[m].clients = {ws}
        /\ managed[n].clients = {other}
        /\ readyState[other] = "OPEN"
        /\ ~managed[n].isClosing
        /\ Len(effects) = 1
        /\ effects[1].fx = "ws.send"
        /\ effects[1].id = ws
        /\ effects[1].type = "rpc_event"

\* the line that the constructor writes for a session file path
SwitchSession(m, sessionPath) ==
    Fx("stdin.write", m,
       Payload("line", Json("switch_session", "", FALSE, sessionPath, "none", 0), "", -1))

\* C30: the step that constructs a transport with a session file writes one
\* line to the input of the new process, the switch_session command with
\* the path of that file, right after the spawn and before the client is
\* bound (so before any rpc_command can reach the process); the step that
\* constructs a transport without a file writes nothing; and every other
\* line written to a process is the command of an rpc_command of a client
\* bound to its session.
C30_SwitchSessionIsFirstLine ==
    [][/\ \A ws \in Clients, c \in CwdInputs, f \in SessionFileInputs :
             (Spawned /\ StartSession(ws, c, f)) =>
                 LET m == Len(managed')
                 IN /\ Get(socketBindings, ws) # m
                    /\ Calls(effects', "stdin.write", m) =
                           IF f = NoFile THEN << >>
                           ELSE <<SwitchSession(m,
                                     getSessionFilePath(resolve(c), basename(f)))>>
                    /\ \A i \in 1..Len(effects') :
                          (effects'[i].fx = "stdin.write" /\ effects'[i].id = m) =>
                              i > 1 /\ effects'[i - 1] = Fx("spawn", m, NoPayload)
       /\ \A i \in 1..Len(effects') :
             (effects'[i].fx = "stdin.write"
              /\ ~(Spawned /\ effects'[i].id = Len(managed'))) =>
                 \E ws \in Clients, command \in Commands :
                     /\ Get(socketBindings, ws) = effects'[i].id
                     /\ RpcCommand(ws, command)
                     /\ effects' = <<Fx("stdin.write", effects'[i].id, stdinLine(command))>>]_vars

\* a session has just been constructed for a session file: its process was
\* spawned and sent switch_session, and the client is bound to it
C30_Witness ==
    \E ws \in Clients, i \in 1..Len(effects) :
        /\ i < Len(effects)
        /\ effects[i] = Fx("spawn", Len(managed), NoPayload)
        /\ effects[i + 1].fx = "stdin.write"
        /\ effects[i + 1].id = Len(managed)
        /\ effects[i + 1].json.type = "switch_session"
        /\ effects[i + 1].json.sessionFile # NoFile
        /\ Get(socketBindings, ws) = Len(managed)
        /\ managed[Len(managed)].sessionFile # NoFile

\* C31: a session with a pending idle timer has no clients, is not running
\* and is not closing; a timer that fires closes its session (the closing
\* flag is set, the registry entries of the session are removed and the
\* process is told to stop); and a timer is armed only for a session that
\* has none pending.
C31_PendingTimerMeansIdle ==
    /\ [](\A m \in Sessions :
             managed[m].idleCleanupTimer =>
                 /\ managed[m].clients = {}
                 /\ ~managed[m].isAgentRunning
                 /\ ~managed[m].isClosing)
    /\ [][\A m \in Sessions :
             /\ IdleTimerFire(m) =>
                    /\ managed'[m].isClosing
                    /\ ~managed'[m].idleCleanupTimer
                    /\ rpc'[m].killed
                    /\ \A k \in DOMAIN rpcSessions' : rpcSessions'[k] # m
                    /\ effects' = <<Fx("kill", m, NoPayload)>>
             /\ Len(Calls(effects', "setTimeout", m)) <= 1
             /\ Calls(effects', "setTimeout", m) # << >> =>
                    ~managed[m].idleCleanupTimer]_vars

\* the timer of one session is pending, just armed, after the timer of
\* another session fired and closed it
C31_Witness ==
    \E m \in Sessions, n \in Sessions :
        /\ m # n
        /\ managed[m].idleCleanupTimer
        /\ effects = <<Fx("setTimeout", m, NoPayload)>>
        /\ managed[n].isClosing
        /\ rpc[n].killed

\* C32: a session that is not closing, has no clients and is not running
\* has an idle timer pending.
C32_IdleSessionHasTimer ==
    \A m \in Sessions :
        (/\ ~managed[m].isClosing
         /\ managed[m].clients = {}
         /\ ~managed[m].isAgentRunning) => managed[m].idleCleanupTimer

\* the last client of a live session has just detached while its socket
\* stays open, and the timer of the session was armed
C32_Witness ==
    \E m \in Sessions :
        /\ ~managed[m].isClosing
        /\ managed[m].clients = {}
        /\ ~managed[m].isAgentRunning
        /\ managed[m].idleCleanupTimer
        /\ effects = <<Fx("setTimeout", m, NoPayload)>>
        /\ \A ws \in Clients : readyState[ws] = "OPEN" /\ ~Bound(ws)

\* C33: no registry entry maps a key to a session whose closing flag is set.
C33_NoClosingSessionInRegistry ==
    \A k \in DOMAIN rpcSessions : ~managed[rpcSessions[k]].isClosing

\* C34: every session that a client is bound to is not closing, a closing
\* session has no clients, and an rpc_command is never written to a
\* transport that was told to stop: a step that forwards a command finds the
\* transport of the client's session not killed.
C34_NoCommandToStoppedTransport ==
    /\ [](\A ws \in DOMAIN socketBindings : ~managed[socketBindings[ws]].isClosing)
    /\ [](\A m \in Sessions : managed[m].isClosing => managed[m].clients = {})
    /\ [](\A ws \in DOMAIN socketBindings : ~rpc[socketBindings[ws]].killed)
    /\ [][\A ws \in Clients, command \in Commands :
             (RpcCommand(ws, command) /\ Bound(ws)) =>
                 /\ ~rpc[socketBindings[ws]].killed
                 /\ ~managed[socketBindings[ws]].isClosing]_vars

\* a command has just been written to the process of a live session while
\* another session is closing after its timer fired
C34_Witness ==
    \E ws \in Clients, n \in Sessions :
        /\ Bound(ws)
        /\ socketBindings[ws] # n
        /\ managed[n].isClosing
        /\ rpc[n].killed
        /\ rpc[n].proc = "running"
        /\ Len(effects) = 1
        /\ effects[1].fx = "stdin.write"
        /\ effects[1].id = socketBindings[ws]

\* the registry keys that map to session m
KeysOf(reg, m) == {k \in DOMAIN reg : reg[k] = m}

\* the clients bound to session m
BoundTo(bindings, m) == {ws \in DOMAIN bindings : bindings[ws] = m}

\* C35: the teardown of a session (its idle timer fires, or its process
\* exits) leaves every other session as it was: the registry entries that
\* map to the other session, its fields (client set, keys, flags, timer),
\* the bindings of its clients and its transport do not change, and its
\* clients are sent nothing.
C35_TeardownLeavesOthersAlone ==
    [][\A x \in Sessions :
          (IdleTimerFire(x) \/ \E code \in ExitCodes : ProcExit(x, code)) =>
              \A y \in Sessions \ {x} :
                  /\ KeysOf(rpcSessions', y) = KeysOf(rpcSessions, y)
                  /\ managed'[y] = managed[y]
                  /\ rpc'[y] = rpc[y]
                  /\ BoundTo(socketBindings', y) = BoundTo(socketBindings, y)
                  /\ \A ws \in managed[y].clients, i \in 1..Len(effects') :
                        effects'[i].id = ws => effects'[i].fx # "ws.send"]_vars

\* a session was closed by its idle timer and its process has exited, after
\* a replacement was created under the same key; the replacement holds the
\* key in the registry and has its client
C35_Witness ==
    \E x \in Sessions, y \in Sessions, ws \in Clients :
        /\ x # y
        /\ managed[x].isClosing
        /\ rpc[x].killed
        /\ rpc[x].proc = "exited"
        /\ managed[x].cwd = managed[y].cwd
        /\ managed[x].sessionFile = managed[y].sessionFile
        /\ ~managed[y].isClosing
        /\ Get(rpcSessions, buildSessionKey(managed[y].cwd, managed[y].sessionFile)) = y
        /\ managed[y].clients = {ws}
        /\ Get(socketBindings, ws) = y

\* C36: when a get_state response makes session x register a discovered
\* key that the registry maps to another session y that is not closing, the
\* registry still maps the key to y afterwards.
C36_PromotionKeepsOwner ==
    [][\A x \in Sessions, p \in DiscoveredPaths \ {NoFile} :
          LET key == buildSessionKey(managed[x].cwd, basename(p))
              y == Get(rpcSessions, key)
          IN (/\ StdoutData(x, <<Json("response", "get_state", TRUE, p, "none", 0)>>)
              /\ y # NoSession
              /\ y # x
              /\ ~managed[y].isClosing) => Get(rpcSessions', key) = y]_vars

\* C37: a start_session request yields the key that a session was created
\* under only if it has the resolved working directory and the session-file
\* base name (or the absence of one) of that session, and a request that
\* names a session file never yields the new-session key of its directory.
C37_SessionKeyInjective ==
    [][\A ws \in Clients, c \in NamedCwdInputs, f \in NamedFileInputs :
          StartSession(ws, c, f) =>
              /\ \A m \in Sessions :
                    requestKey(c, f) = CreationKey(m) =>
                        /\ managed[m].cwd = resolve(c)
                        /\ managed[m].sessionFile = basename(f)
              /\ f # NoFile => requestKey(c, f) # buildSessionKey(resolve(c), NoFile)]_vars

====
